---- MODULE Spec2Model ----
(***************************************************************************)
(* Events and their enrolled participants, kept as whole documents in a    *)
(* document store keyed by event id (src/main.py, src/models.py).          *)
(*                                                                         *)
(* A document is a record; the store is a function from the ids of the     *)
(* stored events to their documents.  Every handler of main.py is one      *)
(* action.  Under Spec the requests run one after the other (a handler is  *)
(* one step).  Under SpecConc a handler that reads a document and later    *)
(* replaces it is two steps, the point read (with the in-memory checks and *)
(* the in-memory change) and the whole-document replace, and the steps of  *)
(* several requests interleave.                                            *)
(***************************************************************************)
EXTENDS Naturals, Sequences, FiniteSets, TLC

VARIABLES store, last, pending, hist

vars == <<store, last, pending, hist>>

(***************************************************************************)
(* Bounds of the model.                                                    *)
(***************************************************************************)
\* Largest capacity a request may carry.
MaxCapacity == 2
\* Longest participants list a create_event or update_event body may carry.
MaxParticipants == 2
\* Number of requests that can be between their read and their write.
MaxInflight == 2

EventIds == {"e1"}
\* The participant ids the requests of Spec and SpecConc carry, and those of
\* the scenario of SpecScenario.
PIds == {"p1", "p2"}
ScenarioPIds == {"p1", "p2", "p3"}
\* name stands for the two required strings of Participante, name and email.
PNames == {"a", "b"}
Regs == {"t1", "t2"}

SeqsUpTo(S, n) == UNION {[1..k -> S] : k \in 0..n}

(***************************************************************************)
(* models.py                                                               *)
(***************************************************************************)
\* A participant as stored: registration_date is always present, either
\* given by the caller or filled in by the default factory.
ParticipanteOf(ids) == [id : ids, name : PNames, registration_date : Regs]

Participante == ParticipanteOf(PIds)

\* The participants a create_event or update_event body lists.
BodyParticipante ==
  {p \in Participante : p.name = "a" /\ p.registration_date = "t1"}

\* An event as stored.  name, description, date and location are strings
\* that no handler reads; capacity stands for the required fields and
\* participants for the optional ones.
Evento ==
  [id : EventIds, capacity : 1..MaxCapacity,
   participants : SeqsUpTo(BodyParticipante, MaxParticipants)]

\* The body of PUT /events/{id}: a whole Evento, of which dict(exclude_unset)
\* keeps the fields the caller gave.  id and capacity are required; unset
\* names the optional fields left out (their value is then the default).
EventoUpdate ==
  {u \in [id : EventIds, capacity : 1..MaxCapacity,
          participants : SeqsUpTo(BodyParticipante, MaxParticipants),
          unset : SUBSET {"participants"}] :
     "participants" \in u.unset => u.participants = <<>>}

\* The body of PUT /events/{id}/participants/{pid}: id and name are required,
\* registration_date may be left out.
ParticipanteUpdate ==
  {u \in [id : PIds, name : PNames, registration_date : Regs,
          unset : SUBSET {"registration_date"}] :
     "registration_date" \in u.unset => u.registration_date = "t1"}

(***************************************************************************)
(* The outcome of a request: the HTTP status and which error it is.        *)
(***************************************************************************)
Status(res) ==
  CASE res = "Created" -> 201
    [] res = "OK" -> 200
    [] res = "NoContent" -> 204
    [] res \in {"NotFound", "ParticipantNotFound"} -> 404
    [] OTHER -> 400

Ids(participants) == {participants[i].id : i \in 1..Len(participants)}

\* next((p for p in event['participants'] if p['id'] == pid), None)
FirstIndex(participants, pid) ==
  IF pid \in Ids(participants)
    THEN CHOOSE i \in 1..Len(participants) :
           /\ participants[i].id = pid
           /\ \A j \in 1..(i - 1) : participants[j].id # pid
    ELSE 0

\* What the last finished request answered.  step tells where it finished:
\* "call" for a handler run as one step, "read" for a request that failed
\* at its read, "write" for a replace of the document as it was read and
\* "stale write" for a replace of a document that changed since the read.
DoneAt(op, ev, res, step) ==
  last' = [op |-> op, ev |-> ev, res |-> res, step |-> step]

Done(op, ev, res) == DoneAt(op, ev, res, "call")

(***************************************************************************)
(* Events                                                                  *)
(***************************************************************************)
\* POST /events/
create_event(event) ==
  IF event.id \in DOMAIN store
    THEN /\ Done("create_event", event.id, "AlreadyExists")
         /\ UNCHANGED store
    ELSE /\ store' = store @@ (event.id :> event)
         /\ Done("create_event", event.id, "Created")

\* GET /events/{event_id}
get_event(event_id) ==
  /\ Done("get_event", event_id, IF event_id \in DOMAIN store THEN "OK" ELSE "NotFound")
  /\ UNCHANGED store

\* MergeEvent with dict() in place of dict(exclude_unset=True): the fields
\* the caller left out overwrite with their defaults.
MergeEvent_AllFields(existing, upd) ==
  [id |-> upd.id, capacity |-> upd.capacity, participants |-> upd.participants]

\* existing_event.update(updated_event.dict(exclude_unset=True))
MergeEvent(existing, upd) ==
  [id |-> upd.id,
   capacity |-> upd.capacity,
   participants |-> IF "participants" \in upd.unset
                      THEN existing.participants ELSE upd.participants]

\* The check of update_event on the merged document.
UpdateEventResult(merged) ==
  IF merged.capacity < Len(merged.participants) THEN "InvalidState" ELSE "OK"

\* PUT /events/{event_id}; the body carries the id of the path.
update_event(event_id, upd) ==
  /\ upd.id = event_id
  /\ IF event_id \notin DOMAIN store
       THEN /\ Done("update_event", event_id, "NotFound")
            /\ UNCHANGED store
       ELSE LET merged == MergeEvent(store[event_id], upd)
                res == UpdateEventResult(merged)
            IN  /\ Done("update_event", event_id, res)
                /\ IF res = "OK"
                     THEN store' = [store EXCEPT ![event_id] = merged]
                     ELSE UNCHANGED store

\* DELETE /events/{event_id}
delete_event(event_id) ==
  IF event_id \in DOMAIN store
    THEN /\ store' = [x \in DOMAIN store \ {event_id} |-> store[x]]
         /\ Done("delete_event", event_id, "NoContent")
    ELSE /\ Done("delete_event", event_id, "NotFound")
         /\ UNCHANGED store

(***************************************************************************)
(* Participants                                                            *)
(***************************************************************************)
\* AddResult without the check of the id.
AddResult_NoDuplicateCheck(event, participant) ==
  IF Len(event.participants) >= event.capacity THEN "CapacityExceeded"
  ELSE "Created"

\* AddResult with the check of the id before the check of the capacity.
AddResult_DuplicateFirst(event, participant) ==
  IF \E i \in 1..Len(event.participants) :
       event.participants[i].id = participant.id
    THEN "DuplicateParticipant"
  ELSE IF Len(event.participants) >= event.capacity THEN "CapacityExceeded"
  ELSE "Created"

\* The two checks of add_participant, in the order of the code.
AddResult(event, participant) ==
  IF Len(event.participants) >= event.capacity THEN "CapacityExceeded"
  ELSE IF \E i \in 1..Len(event.participants) :
            event.participants[i].id = participant.id
         THEN "DuplicateParticipant"
  ELSE "Created"

\* event['participants'].append(participant.dict())
AddBody(event, participant) ==
  [event EXCEPT !.participants = Append(@, participant)]

\* POST /events/{event_id}/participants/
add_participant(event_id, participant) ==
  IF event_id \notin DOMAIN store
    THEN /\ Done("add_participant", event_id, "NotFound")
         /\ UNCHANGED store
    ELSE LET event == store[event_id]
             res == AddResult(event, participant)
         IN  /\ Done("add_participant", event_id, res)
             /\ IF res = "Created"
                  THEN store' = [store EXCEPT ![event_id] = AddBody(event, participant)]
                  ELSE UNCHANGED store

\* GET /events/{event_id}/participants/{participant_id}
get_participant(event_id, participant_id) ==
  /\ Done("get_participant", event_id,
          IF event_id \notin DOMAIN store THEN "NotFound"
          ELSE IF FirstIndex(store[event_id].participants, participant_id) = 0
                 THEN "ParticipantNotFound"
          ELSE "OK")
  /\ UNCHANGED store

\* GET /events/{event_id}/participants/ ; the filters and the sort act on the
\* returned list only.
list_participants(event_id) ==
  /\ Done("list_participants", event_id,
          IF event_id \in DOMAIN store THEN "OK" ELSE "NotFound")
  /\ UNCHANGED store

\* participant.update(updated_participant.dict(exclude_unset=True))
MergeParticipant(existing, upd) ==
  [id |-> upd.id,
   name |-> upd.name,
   registration_date |-> IF "registration_date" \in upd.unset
                           THEN existing.registration_date
                           ELSE upd.registration_date]

\* participant is the first entry with the id, updated in place; the
\* comprehension then puts it wherever the id of the path is found.
UpdateBody(event, participant_id, upd) ==
  LET old == event.participants
      participant == MergeParticipant(old[FirstIndex(old, participant_id)], upd)
  IN  [event EXCEPT !.participants =
         [j \in 1..Len(old) |->
            IF old[j].id = participant_id THEN participant ELSE old[j]]]

MutateResult(event, participant_id, ok) ==
  IF FirstIndex(event.participants, participant_id) = 0
    THEN "ParticipantNotFound" ELSE ok

\* PUT /events/{event_id}/participants/{participant_id}
update_participant(event_id, participant_id, upd) ==
  IF event_id \notin DOMAIN store
    THEN /\ Done("update_participant", event_id, "NotFound")
         /\ UNCHANGED store
    ELSE LET event == store[event_id]
             res == MutateResult(event, participant_id, "OK")
         IN  /\ Done("update_participant", event_id, res)
             /\ IF res = "OK"
                  THEN store' = [store EXCEPT ![event_id] =
                                   UpdateBody(event, participant_id, upd)]
                  ELSE UNCHANGED store

\* [p for p in event['participants'] if p['id'] != participant_id]
DeleteBody(event, participant_id) ==
  LET keep(p) == p.id # participant_id
  IN  [event EXCEPT !.participants = SelectSeq(@, keep)]

\* DELETE /events/{event_id}/participants/{participant_id}
delete_participant(event_id, participant_id) ==
  IF event_id \notin DOMAIN store
    THEN /\ Done("delete_participant", event_id, "NotFound")
         /\ UNCHANGED store
    ELSE LET event == store[event_id]
             res == MutateResult(event, participant_id, "NoContent")
         IN  /\ Done("delete_participant", event_id, res)
             /\ IF res = "NoContent"
                  THEN store' = [store EXCEPT ![event_id] =
                                   DeleteBody(event, participant_id)]
                  ELSE UNCHANGED store

(***************************************************************************)
(* Spec: the requests run one after the other.                             *)
(***************************************************************************)
NoStore == [x \in {} |-> 0]

Init ==
  /\ store = NoStore
  /\ last = [op |-> "start", ev |-> "", res |-> "OK", step |-> "call"]
  /\ pending = NoStore
  /\ hist = <<>>

\* A handler run as one step leaves the requests in flight and the scenario
\* record alone.
CreateEvent ==
  \E event \in Evento :
    create_event(event) /\ UNCHANGED <<pending, hist>>
GetEvent ==
  \E e \in EventIds :
    get_event(e) /\ UNCHANGED <<pending, hist>>
UpdateEvent ==
  \E e \in EventIds, upd \in EventoUpdate :
    update_event(e, upd) /\ UNCHANGED <<pending, hist>>
DeleteEvent ==
  \E e \in EventIds :
    delete_event(e) /\ UNCHANGED <<pending, hist>>
AddParticipant ==
  \E e \in EventIds, p \in Participante :
    add_participant(e, p) /\ UNCHANGED <<pending, hist>>
GetParticipant ==
  \E e \in EventIds, pid \in PIds :
    get_participant(e, pid) /\ UNCHANGED <<pending, hist>>
ListParticipants ==
  \E e \in EventIds :
    list_participants(e) /\ UNCHANGED <<pending, hist>>
UpdateParticipant ==
  \E e \in EventIds, pid \in PIds, upd \in ParticipanteUpdate :
    update_participant(e, pid, upd) /\ UNCHANGED <<pending, hist>>
DeleteParticipant ==
  \E e \in EventIds, pid \in PIds :
    delete_participant(e, pid) /\ UNCHANGED <<pending, hist>>

Next ==
  \/ CreateEvent
  \/ GetEvent
  \/ UpdateEvent
  \/ DeleteEvent
  \/ AddParticipant
  \/ GetParticipant
  \/ ListParticipants
  \/ UpdateParticipant
  \/ DeleteParticipant

Spec == Init /\ [][Next]_vars

(***************************************************************************)
(* SpecConc: requests overlap.  A request that changes a document holds,   *)
(* between its read and its write, the document it read and what it was    *)
(* asked to do; nothing ties the write to the version that was read.       *)
(***************************************************************************)
Workers == 1..MaxInflight

\* create_event bodies within their capacity.
ValidEvento == {event \in Evento : Len(event.participants) <= event.capacity}
\* The bodies of the requests that overlap: participants as the event
\* bodies list them, updates that change the id, updates of the capacity.
ConcParticipanteUpdate ==
  {u \in ParticipanteUpdate : u.name = "a" /\ u.unset = {"registration_date"}}
ConcEventoUpdate == {u \in EventoUpdate : u.unset = {"participants"}}

Success(op) ==
  CASE op = "add_participant" -> "Created"
    [] op = "delete_participant" -> "NoContent"
    [] OTHER -> "OK"

\* The document a request has in memory when it calls replace_item.
Body(r) ==
  CASE r.op = "add_participant" -> AddBody(r.seen, r.data)
    [] r.op = "update_participant" -> UpdateBody(r.seen, r.pid, r.data)
    [] r.op = "delete_participant" -> DeleteBody(r.seen, r.pid)
    [] r.op = "update_event" -> MergeEvent(r.seen, r.data)

\* container.read_item and the checks that follow it, for request r of
\* worker w, whose checks on the document read answer res.
ReadStep(w, r, res) ==
  /\ w \notin DOMAIN pending
  /\ UNCHANGED store
  /\ IF r.ev \notin DOMAIN store
       THEN /\ DoneAt(r.op, r.ev, "NotFound", "read")
            /\ UNCHANGED pending
       ELSE IF res = Success(r.op)
         THEN /\ pending' = pending @@ (w :> r)
              /\ UNCHANGED last
         ELSE /\ DoneAt(r.op, r.ev, res, "read")
              /\ UNCHANGED pending

Seen(e) == IF e \in DOMAIN store THEN store[e] ELSE [id |-> e]

add_participant_read(w, e, p) ==
  LET r == [op |-> "add_participant", ev |-> e, pid |-> p.id, data |-> p,
            seen |-> Seen(e)]
  IN  ReadStep(w, r, IF e \in DOMAIN store THEN AddResult(store[e], p) ELSE "NotFound")

update_participant_read(w, e, pid, upd) ==
  LET r == [op |-> "update_participant", ev |-> e, pid |-> pid, data |-> upd,
            seen |-> Seen(e)]
  IN  ReadStep(w, r, IF e \in DOMAIN store
                       THEN MutateResult(store[e], pid, "OK") ELSE "NotFound")

delete_participant_read(w, e, pid) ==
  LET r == [op |-> "delete_participant", ev |-> e, pid |-> pid, data |-> pid,
            seen |-> Seen(e)]
  IN  ReadStep(w, r, IF e \in DOMAIN store
                       THEN MutateResult(store[e], pid, "NoContent") ELSE "NotFound")

update_event_read(w, e, upd) ==
  LET r == [op |-> "update_event", ev |-> e, pid |-> "", data |-> upd,
            seen |-> Seen(e)]
  IN  /\ upd.id = e
      /\ ReadStep(w, r, IF e \in DOMAIN store
                          THEN UpdateEventResult(MergeEvent(store[e], upd))
                          ELSE "NotFound")

\* replace_item made conditional on the version read: a document that
\* changed since the read is left alone and the request fails.
replace_item_IfMatch(w) ==
  /\ w \in DOMAIN pending
  /\ LET r == pending[w]
     IN  /\ pending' = [x \in DOMAIN pending \ {w} |-> pending[x]]
         /\ IF r.ev \notin DOMAIN store
              THEN /\ DoneAt(r.op, r.ev, "NotFound", "write")
                   /\ UNCHANGED store
              ELSE IF store[r.ev] # r.seen
                THEN /\ DoneAt(r.op, r.ev, "PreconditionFailed", "stale write")
                     /\ UNCHANGED store
                ELSE /\ store' = [store EXCEPT ![r.ev] = Body(r)]
                     /\ DoneAt(r.op, r.ev, Success(r.op), "write")

\* replace_item as an upsert: a document that is gone is written again.
replace_item_Upsert(w) ==
  /\ w \in DOMAIN pending
  /\ LET r == pending[w]
     IN  /\ pending' = [x \in DOMAIN pending \ {w} |-> pending[x]]
         /\ store' = [x \in DOMAIN store \cup {r.ev} |->
                        IF x = r.ev THEN Body(r) ELSE store[x]]
         /\ DoneAt(r.op, r.ev, Success(r.op), "write")

\* replace_item as a patch: an add appends its participant to the list
\* stored by now instead of replacing the whole document.
replace_item_Patch(w) ==
  /\ w \in DOMAIN pending
  /\ LET r == pending[w]
     IN  /\ pending' = [x \in DOMAIN pending \ {w} |-> pending[x]]
         /\ IF r.ev \notin DOMAIN store
              THEN /\ DoneAt(r.op, r.ev, "NotFound", "write")
                   /\ UNCHANGED store
              ELSE /\ store' = [store EXCEPT ![r.ev] =
                                  IF r.op = "add_participant"
                                    THEN AddBody(store[r.ev], r.data)
                                    ELSE Body(r)]
                   /\ DoneAt(r.op, r.ev, Success(r.op),
                             IF store[r.ev] = r.seen THEN "write" ELSE "stale write")

\* container.replace_item(item=event_id, body=event): replaces the stored
\* document whatever it holds by now; CosmosResourceNotFoundError, caught as
\* 404, when there is none.
replace_item(w) ==
  /\ w \in DOMAIN pending
  /\ LET r == pending[w]
     IN  /\ pending' = [x \in DOMAIN pending \ {w} |-> pending[x]]
         /\ IF r.ev \notin DOMAIN store
              THEN /\ DoneAt(r.op, r.ev, "NotFound", "write")
                   /\ UNCHANGED store
              ELSE /\ store' = [store EXCEPT ![r.ev] = Body(r)]
                   /\ DoneAt(r.op, r.ev, Success(r.op),
                             IF store[r.ev] = r.seen THEN "write" ELSE "stale write")

CreateValidEvent ==
  \E event \in ValidEvento :
    create_event(event) /\ UNCHANGED <<pending, hist>>
AddParticipantRead ==
  \E w \in Workers, e \in EventIds, p \in BodyParticipante :
    add_participant_read(w, e, p) /\ UNCHANGED hist
UpdateParticipantRead ==
  \E w \in Workers, e \in EventIds, pid \in PIds,
     upd \in ConcParticipanteUpdate :
    update_participant_read(w, e, pid, upd) /\ UNCHANGED hist
DeleteParticipantRead ==
  \E w \in Workers, e \in EventIds, pid \in PIds :
    delete_participant_read(w, e, pid) /\ UNCHANGED hist
UpdateEventRead ==
  \E w \in Workers, e \in EventIds, upd \in ConcEventoUpdate :
    update_event_read(w, e, upd) /\ UNCHANGED hist
ReplaceItem == \E w \in Workers : replace_item(w) /\ UNCHANGED hist

NextConc ==
  \/ CreateValidEvent
  \/ GetEvent
  \/ DeleteEvent
  \/ GetParticipant
  \/ ListParticipants
  \/ AddParticipantRead
  \/ UpdateParticipantRead
  \/ DeleteParticipantRead
  \/ UpdateEventRead
  \/ ReplaceItem

SpecConc == Init /\ [][NextConc]_vars

(***************************************************************************)
(* SpecScenario: event e1 with capacity 2 and no participant receives up   *)
(* to four add_participant requests; hist lists, in order, the id each     *)
(* request carried and what it was answered.                               *)
(***************************************************************************)
InitScenario ==
  /\ store = ("e1" :> [id |-> "e1", capacity |-> 2, participants |-> <<>>])
  /\ last = [op |-> "start", ev |-> "", res |-> "OK", step |-> "call"]
  /\ pending = NoStore
  /\ hist = <<>>

ScenarioAdd ==
  \E p \in ParticipanteOf(ScenarioPIds) :
    /\ Len(hist) < 4
    /\ add_participant("e1", p)
    /\ hist' = Append(hist, [id |-> p.id, res |-> last'.res])
    /\ UNCHANGED pending

NextScenario == ScenarioAdd

SpecScenario == InitScenario /\ [][NextScenario]_vars

(***************************************************************************)
(* The claims.                                                             *)
(***************************************************************************)
ParticipantOps == {"add_participant", "update_participant", "delete_participant"}

\* C1: after every mutating operation, run one after the other, every stored
\* event has capacity >= the number of its participants.
C1_CapacityInvariant ==
  \A e \in DOMAIN store : store[e].capacity >= Len(store[e].participants)

\* C2: in every reachable stored state no two entries of one event's
\* participants list have the same id.
C2_UniqueIds ==
  \A e \in DOMAIN store :
    \A i, j \in 1..Len(store[e].participants) :
      i # j => store[e].participants[i].id # store[e].participants[j].id

\* C3: on an existing event add_participant either succeeds, and the stored
\* list is the previous list with the new participant appended (one longer),
\* or fails because the event is at capacity or because the id is already
\* present, and then the stored list is unchanged.
C3_AddParticipant ==
  [][last'.op = "add_participant" =>
       \A e \in DOMAIN store, p \in Participante :
         add_participant(e, p) =>
           LET old == store[e].participants
               new == store'[e].participants
           IN  \/ /\ last'.res = "Created"
                  /\ Len(old) < store[e].capacity
                  /\ p.id \notin Ids(old)
                  /\ new = Append(old, p)
                  /\ Len(new) = Len(old) + 1
               \/ /\ last'.res = "CapacityExceeded"
                  /\ Len(old) >= store[e].capacity
                  /\ store' = store
               \/ /\ last'.res = "DuplicateParticipant"
                  /\ p.id \in Ids(old)
                  /\ store' = store]_vars

\* A participant has just been appended to a list that was not empty.
C3_Witness ==
  /\ last.op = "add_participant"
  /\ last.res = "Created"
  /\ \E e \in DOMAIN store : Len(store[e].participants) >= 2

ScriptIds == <<"p1", "p2", "p3", "p1">>

FollowsScript(k) == \A j \in 1..k : hist[j].id = ScriptIds[j]

ScriptOutcome(expected) ==
  /\ \A k \in 1..Len(hist) : FollowsScript(k) => hist[k].res = expected[k]
  /\ (Len(hist) = 2 /\ FollowsScript(2)) => Len(store["e1"].participants) = 2

\* C4 as stated: from e1 with capacity 2 and no participant, Add p1, Add p2,
\* Add p3, Add p1 are answered success, success (list length 2),
\* CapacityExceeded, DuplicateParticipant.
C4_AsStated ==
  ScriptOutcome(<<"Created", "Created", "CapacityExceeded", "DuplicateParticipant">>)

\* C4, amended: from e1 with capacity 2 and no participant, Add p1, Add p2,
\* Add p3, Add p1 are answered success, success (list length 2),
\* CapacityExceeded, and CapacityExceeded again: the event is still full and
\* the capacity check comes before the duplicate check.
C4_Scenario ==
  ScriptOutcome(<<"Created", "Created", "CapacityExceeded", "CapacityExceeded">>)

\* The four requests of the scenario have been answered.
C4_Witness == Len(hist) = 4 /\ FollowsScript(4)

C6_DeleteParticipant ==
  [][last'.op = "delete_participant" /\ last'.res = "NoContent" =>
       \A e \in DOMAIN store, pid \in PIds :
         delete_participant(e, pid) =>
           LET old == store[e].participants
               new == store'[e].participants
               keep(p) == p.id # pid
           IN  /\ pid \notin Ids(new)
               /\ Len(new) = Len(old) - 1
               /\ new = SelectSeq(old, keep)]_vars

\* C9: a successful update_participant changes only the entry whose id is
\* participantId: that entry keeps its position, takes the supplied fields
\* and keeps the others; every other entry and the length are unchanged; no
\* uniqueness check is made on a changed id.
C9_UpdateParticipant ==
  [][last'.op = "update_participant" /\ last'.res = "OK" =>
       \A e \in DOMAIN store, pid \in PIds, upd \in ParticipanteUpdate :
         update_participant(e, pid, upd) =>
           LET old == store[e].participants
               new == store'[e].participants
               i == FirstIndex(old, pid)
           IN  /\ Len(new) = Len(old)
               /\ new[i] = MergeParticipant(old[i], upd)
               /\ \A j \in 1..Len(old) : j # i => new[j] = old[j]]_vars

\* C7: when participant-mutating requests on one event read the document
\* before a write of another lands, each write reports success and the
\* stored document is the one the writer read with its own change alone:
\* what was written in between is lost.
C7_LostUpdate ==
  [][\A w \in DOMAIN pending :
       (/\ replace_item(w)
        /\ pending[w].op \in ParticipantOps
        /\ pending[w].ev \in DOMAIN store) =>
         LET r == pending[w]
         IN  /\ last'.res = Success(r.op)
             /\ store'[r.ev].capacity = r.seen.capacity
             /\ store'[r.ev].participants = Body(r).participants]_vars

\* A request has replaced a document that changed after it read it.
C7_Witness ==
  /\ last.op \in ParticipantOps
  /\ last.step = "stale write"
  /\ last.res = Success(last.op)

\* C8: while an event is absent (deleted and not created again) get_event
\* and every participant operation on it answer NotFound (404), and the
\* write-back of a participant mutation that read it earlier answers
\* NotFound too and does not create the document again.
C8_DeletedStaysDeleted ==
  [][\A e \in EventIds \ DOMAIN store :
       /\ e \in DOMAIN store' => (last'.op = "create_event" /\ last'.ev = e)
       /\ (last' # last /\ last'.ev = e /\ last'.op # "create_event") =>
            /\ last'.res = "NotFound"
            /\ Status(last'.res) = 404
       /\ delete_event(e) => last'.res = "NotFound"
       /\ \A w \in DOMAIN pending' : w \notin DOMAIN pending => pending'[w].ev # e
       /\ \A w \in DOMAIN pending :
            (replace_item(w) /\ pending[w].ev = e) =>
              (store' = store /\ last'.res = "NotFound")]_vars

\* The write-back of a participant mutation found its event gone.
C8_Witness ==
  /\ last.op \in ParticipantOps
  /\ last.step = "write"
  /\ last.res = "NotFound"
  /\ DOMAIN store = {}

\* C10: with events created within their capacity, under any interleaving
\* of the reads and writes of add_participant, update_participant,
\* delete_participant and update_event, every stored document has
\* capacity >= the number of its participants.
C10_NeverOverfilled ==
  \A e \in DOMAIN store : store[e].capacity >= Len(store[e].participants)

\* An add that passed its capacity check is still to write while the stored
\* event is full.
C10_Witness ==
  \E w \in DOMAIN pending :
    /\ pending[w].op = "add_participant"
    /\ pending[w].ev \in DOMAIN store
    /\ Len(store[pending[w].ev].participants) = store[pending[w].ev].capacity
    /\ store[pending[w].ev] # pending[w].seen

====
